---- MODULE Spec2Model ----
(***************************************************************************)
(* A-Mesob chatbot: the ingestion pipeline (documentProcessor.ts), the     *)
(* remote-completion service wrapper (llmService.ts) and the session state *)
(* machine of the React component (App.tsx).                               *)
(*                                                                         *)
(* Two specifications share the module:                                    *)
(*   Spec       the session: load, typed and voice send, interrupt,        *)
(*              response arrival, upload, delete, sidebar selection;       *)
(*   SpecChunk  chunkText run as its loop, one iteration per step, on      *)
(*              inputs drawn from bounded sets (SpecChunkFair adds the     *)
(*              weak fairness of a running loop).                          *)
(*                                                                         *)
(* Texts are JavaScript strings: sequences of UTF-16 code units, modelled  *)
(* as sequences of one-character strings.                                  *)
(***************************************************************************)
EXTENDS Integers, Sequences, FiniteSets, TLC

VARIABLES
    chunker,            \* the activation record of one chunkText call
    cleaner,            \* the activation record of one cleanText call
    extractor,          \* the activation record of one extractTextFromFile call
    user,               \* state.user
    messages,           \* state.messages
    documents,          \* state.documents
    isProcessing,       \* state.isProcessing
    activeDocumentId,   \* state.activeDocumentId
    input,              \* the textarea's text
    error,              \* the error banner
    isRecording,
    isTranscribing,
    abortControllerRef, \* the call whose AbortController the ref holds, or NoCall
    mediaRecorderRef,   \* the recorder the ref holds, or NoRecorder
    audioChunksRef,     \* the recorders whose audio the ref's array holds
    calls,              \* every llmService.generateResponse call of the session
    recorders,          \* every MediaRecorder of the session
    uploads,            \* every handleFileUpload activation
    deletes,            \* ids whose docDB.deleteDocument is awaited
    store,              \* docDB: the persisted documents
    historyStore,       \* localStorage amesob_history_<user id>
    sessionPc           \* loadSession: "loading", "loaded" or "failed"

vars == <<chunker, cleaner, extractor, user, messages, documents, isProcessing,
          activeDocumentId, input, error, isRecording, isTranscribing,
          abortControllerRef, mediaRecorderRef, audioChunksRef, calls,
          recorders, uploads, deletes, store, historyStore, sessionPc>>

\* the activation records of the routines of documentProcessor.ts
procVars == <<chunker, cleaner, extractor>>

appVars == <<user, messages, documents, isProcessing, activeDocumentId,
             input, error, isRecording, isTranscribing, abortControllerRef,
             mediaRecorderRef, audioChunksRef, calls, recorders, uploads,
             deletes, store, historyStore, sessionPc>>

(***************************************************************************)
(* Bounds of the model.                                                    *)
(***************************************************************************)
MaxLen == 10        \* longest text given to chunkText in SpecChunk
MaxParam == 5       \* largest size / overlap given to chunkText in SpecChunk
MaxShort == 2       \* longest two-letter-alphabet text in SpecChunk
IterSlack == 2      \* iterations a non-terminating loop is followed past MaxLen

Min(a, b) == IF a < b THEN a ELSE b
Max(a, b) == IF a > b THEN a ELSE b

(***************************************************************************)
(* String.prototype.substring(start, end): both arguments are clamped to   *)
(* [0, length] and swapped when start > end; the result is the code units  *)
(* at offsets start .. end-1 (0-based).                                    *)
(***************************************************************************)
Clamp(n, len) == Min(Max(n, 0), len)

substring(text, start, end) ==
    LET s == Clamp(start, Len(text))
        e == Clamp(end, Len(text))
    IN  SubSeq(text, Min(s, e) + 1, Max(s, e))

(***************************************************************************)
(* documentProcessor.ts, chunkText.  An activation is                      *)
(*   [pc, text, size, overlap, index, chunks]                              *)
(* with pc = "loop" while the while-statement runs and "done" once         *)
(* `return chunks` has executed.                                           *)
(***************************************************************************)
DEFAULT_SIZE == 2000
DEFAULT_OVERLAP == 200

chunkEnter(text, size, overlap) ==
    [pc |-> "loop", text |-> text, size |-> size, overlap |-> overlap,
     index |-> 0, chunks |-> <<>>]

\* while (index <= text.length): an inclusive bound
chunkCondInclusive(a) == a.index <= Len(a.text)

\* while (index < text.length)
chunkCond(a) == a.index < Len(a.text)

\* index += (overlap - size): the step reversed
chunkAdvanceReversed(index, size, overlap) == index + (overlap - size)

\* index += size: the overlap dropped from the step
chunkAdvanceNoOverlap(index, size, overlap) == index + size

\* index += (size - overlap)
chunkAdvance(index, size, overlap) == index + (size - overlap)

\* chunks.push(text.substring(index + 1, index + size)): an off-by-one slice
chunkSliceOffByOne(text, index, size) == substring(text, index + 1, index + size)

\* text.substring(index, index + size)
chunkSlice(text, index, size) == substring(text, index, index + size)

\* one iteration of the loop body
chunkBody(a) ==
    [a EXCEPT !.chunks = Append(a.chunks, chunkSlice(a.text, a.index, a.size)),
              !.index = chunkAdvance(a.index, a.size, a.overlap)]

\* return chunks
chunkReturn(a) == [a EXCEPT !.pc = "done"]

\* chunkText as a function: the loop run to its return.  Defined when the
\* loop terminates (size > overlap, or an empty text).
RECURSIVE chunkRun(_)
chunkRun(a) == IF chunkCond(a) THEN chunkRun(chunkBody(a)) ELSE a.chunks

chunkText(text, size, overlap) == chunkRun(chunkEnter(text, size, overlap))

\* chunkText(text) called with the overlap left out of the step
chunkTextNoOverlap(text) == chunkText(text, DEFAULT_SIZE, 0)

\* chunkText(text): size = 2000, overlap = 200
chunkTextDefault(text) == chunkText(text, DEFAULT_SIZE, DEFAULT_OVERLAP)

(***************************************************************************)
(* SpecChunk: the inputs of chunkText and its loop.                        *)
(***************************************************************************)
Alphabet == <<"a", "b", "c", "d", "e", "f", "g", "h", "i", "j", "k", "l">>

\* the texts "", "a", "ab", ... "abcdefghij": every offset is told apart
DistinctTexts == {SubSeq(Alphabet, 1, n) : n \in 0..MaxLen}

\* every text over {a, b} up to MaxShort letters: repeated letters
ShortTexts == UNION {[1..n -> {"a", "b"}] : n \in 0..MaxShort}

ChunkTexts == DistinctTexts \cup ShortTexts

ChunkParams == 0..MaxParam

\* how many iterations of a loop are followed
MaxIter == MaxLen + IterSlack

NoChunker ==
    [pc |-> "idle", text |-> <<>>, size |-> 0, overlap |-> 0,
     index |-> 0, chunks |-> <<>>]

ChunkIterate ==
    /\ chunker.pc = "loop"
    /\ chunkCond(chunker)
    /\ Len(chunker.chunks) < MaxIter
    /\ chunker' = chunkBody(chunker)
    /\ UNCHANGED <<cleaner, extractor>>
    /\ UNCHANGED appVars

ChunkReturn ==
    /\ chunker.pc = "loop"
    /\ ~chunkCond(chunker)
    /\ chunker' = chunkReturn(chunker)
    /\ UNCHANGED <<cleaner, extractor>>
    /\ UNCHANGED appVars

NextChunk == ChunkIterate \/ ChunkReturn


(***************************************************************************)
(* cleanText (documentProcessor.ts).  A text is the sequence of its        *)
(* characters; the four steps of the routine are the four operators below, *)
(* each a String.prototype.replace with a global pattern, or trim.         *)
(***************************************************************************)
MaxFragments == 5   \* fragments joined into one text given to cleanText

\* the characters \s matches and trim strips, among those of the inputs
Whitespace == {" ", "\n", "\t", "\r"}

\* the characters \d matches
Digits == {"0", "1", "2", "3", "4", "5", "6", "7", "8", "9"}

\* the length of the longest prefix of text made of characters of class
RECURSIVE RunLength(_, _)
RunLength(text, class) ==
    IF text # <<>> /\ Head(text) \in class
    THEN 1 + RunLength(Tail(text), class)
    ELSE 0

Drop(text, n) == SubSeq(text, n + 1, Len(text))

Newline == {"\n"}

\* .replace(/\n{2,}/g, '\n')
RECURSIVE replaceNewlineRuns(_)
replaceNewlineRuns(text) ==
    IF text = <<>> THEN <<>>
    ELSE IF RunLength(text, Newline) >= 2
         THEN <<"\n">> \o replaceNewlineRuns(Drop(text, RunLength(text, Newline)))
         ELSE <<Head(text)>> \o replaceNewlineRuns(Tail(text))

\* a pattern that replaces whitespace two characters at a time: /\s\s/g
RECURSIVE replaceWhitespacePairs(_)
replaceWhitespacePairs(text) ==
    IF text = <<>> THEN <<>>
    ELSE IF RunLength(text, Whitespace) >= 2
         THEN <<" ">> \o replaceWhitespacePairs(Drop(text, 2))
         ELSE <<Head(text)>> \o replaceWhitespacePairs(Tail(text))

\* .replace(/\s+/g, ' ')
RECURSIVE replaceWhitespaceRuns(_)
replaceWhitespaceRuns(text) ==
    IF text = <<>> THEN <<>>
    ELSE IF RunLength(text, Whitespace) >= 1
         THEN <<" ">> \o replaceWhitespaceRuns(Drop(text, RunLength(text, Whitespace)))
         ELSE <<Head(text)>> \o replaceWhitespaceRuns(Tail(text))

\* the i flag on the letters of "Page"
MatchesIgnoringCase(c, letter) ==
    \/ letter = "p" /\ c \in {"p", "P"}
    \/ letter = "a" /\ c \in {"a", "A"}
    \/ letter = "g" /\ c \in {"g", "G"}
    \/ letter = "e" /\ c \in {"e", "E"}

\* the length of the match of /Page\s+\d+/i at the start of text, 0 when none
\* (\s+ and \d+ are greedy and match disjoint characters: no backtracking)
pageMatch(text) ==
    IF /\ Len(text) >= 4
       /\ MatchesIgnoringCase(text[1], "p")
       /\ MatchesIgnoringCase(text[2], "a")
       /\ MatchesIgnoringCase(text[3], "g")
       /\ MatchesIgnoringCase(text[4], "e")
    THEN LET spaces == RunLength(Drop(text, 4), Whitespace)
             digits == RunLength(Drop(text, 4 + spaces), Digits)
         IN  IF spaces >= 1 /\ digits >= 1 THEN 4 + spaces + digits ELSE 0
    ELSE 0

\* .replace(/Page\s+\d+/gi, ''): matches are taken left to right and the
\* search resumes after each match
RECURSIVE replacePageArtifacts(_)
replacePageArtifacts(text) ==
    IF text = <<>> THEN <<>>
    ELSE IF pageMatch(text) > 0
         THEN replacePageArtifacts(Drop(text, pageMatch(text)))
         ELSE <<Head(text)>> \o replacePageArtifacts(Tail(text))

RECURSIVE trimEnd(_)
trimEnd(text) ==
    IF text # <<>> /\ text[Len(text)] \in Whitespace
    THEN trimEnd(SubSeq(text, 1, Len(text) - 1))
    ELSE text

\* .trim()
trim(text) == trimEnd(Drop(text, RunLength(text, Whitespace)))

\* cleanText with its second pattern written /\s\s/g
cleanTextPairs(text) ==
    trim(replacePageArtifacts(replaceWhitespacePairs(replaceNewlineRuns(text))))

\* cleanText with the whitespace runs collapsed once more after the removal
cleanTextRecollapsed(text) ==
    trim(replaceWhitespaceRuns(
            replacePageArtifacts(replaceWhitespaceRuns(replaceNewlineRuns(text)))))

cleanText(text) ==
    trim(replacePageArtifacts(replaceWhitespaceRuns(replaceNewlineRuns(text))))

(***************************************************************************)
(* SpecClean: cleanText is applied to a text joined from fragments, or to  *)
(* the text of the specification's scenario, and then to its own result.   *)
(***************************************************************************)
Fragments ==
    { <<" ">>, <<"\n">>, <<"\t">>,
      <<"P", "a", "g", "e", " ", "1", "2">>,
      <<"p", "a">>,
      <<"G", "E", "\n", "3">> }

RECURSIVE Join(_)
Join(fragments) ==
    IF fragments = <<>> THEN <<>> ELSE Head(fragments) \o Join(Tail(fragments))

\* "Hello   world\n\n\nPage 3 foo"
ScenarioText ==
    <<"H", "e", "l", "l", "o", " ", " ", " ", "w", "o", "r", "l", "d",
      "\n", "\n", "\n", "P", "a", "g", "e", " ", "3", " ", "f", "o", "o">>

CleanTexts ==
    {ScenarioText} \cup
    {Join(f) : f \in UNION {[1..n -> Fragments] : n \in 0..MaxFragments}}

NoCleaner == [pc |-> "idle", text |-> <<>>, once |-> <<>>, twice |-> <<>>]

cleanEnter(text) == [pc |-> "entered", text |-> text, once |-> <<>>, twice |-> <<>>]

\* cleanText(x)
CleanOnce ==
    /\ cleaner.pc = "entered"
    /\ cleaner' = [cleaner EXCEPT !.pc = "cleaned", !.once = cleanText(cleaner.text)]
    /\ UNCHANGED <<chunker, extractor>>
    /\ UNCHANGED appVars

\* cleanText(cleanText(x))
CleanTwice ==
    /\ cleaner.pc = "cleaned"
    /\ cleaner' = [cleaner EXCEPT !.pc = "recleaned", !.twice = cleanText(cleaner.once)]
    /\ UNCHANGED <<chunker, extractor>>
    /\ UNCHANGED appVars

NextClean == CleanOnce \/ CleanTwice


(***************************************************************************)
(* The session (App.tsx).                                                  *)
(*                                                                         *)
(* React state updates are atomic with the render that follows them: an    *)
(* event handler runs to its first await, and each continuation after an   *)
(* await runs as one step.  A handler reads `state` and `input` from the   *)
(* render in which it was created; a handler reached through a callback    *)
(* registered earlier (MediaRecorder.onstop) therefore reads the render of *)
(* the moment of registration.  setState(prev => ...) updates read the     *)
(* current state.                                                          *)
(*                                                                         *)
(* The views (chat, admin dashboard, reports) are not modelled: the        *)
(* navigation buttons are never disabled, so any handler of any view can   *)
(* follow any other.  The session is the administrator's, who reaches all  *)
(* views.  Login and logout reload the page, which starts a new session    *)
(* from Init.                                                              *)
(***************************************************************************)
MaxCalls == 2       \* generateResponse calls followed in Spec and SpecVoice
MaxCallsChat == 1   \* generateResponse calls followed in SpecChat
MaxUploads == 1     \* handleFileUpload activations followed in Spec and SpecChat
MaxUploadsDocs == 2 \* handleFileUpload activations followed in SpecDocs
MaxRecordings == 1  \* recordings followed in Spec
MaxRecordingsVoice == 2 \* recordings followed in SpecVoice
LongLen == 3700     \* length of the long document text

NoDoc == "null"         \* activeDocumentId: null
NoError == "null"       \* error: null
NoUser == "null"        \* state.user: null
NoCall == 0             \* abortControllerRef.current: null
NoRecorder == 0         \* mediaRecorderRef.current: null
HISTORY_WINDOW == 5     \* state.messages.slice(-5)
CONTEXT_CEILING == 800000

SavedUser == "admin-001"

(***************************************************************************)
(* Texts of the session are held by name; Chars gives the code units of    *)
(* the texts whose inside is read (document contents).                     *)
(***************************************************************************)
LongText == [i \in 1..LongLen |-> "x"]
ShortText == <<"h", "e", "l", "l", "o">>

Chars(t) ==
    CASE t = "T_EMPTY" -> <<>>
      [] t = "T_SHORT" -> ShortText
      [] t = "T_LONG"  -> LongText
      [] OTHER         -> <<t>>

\* String.prototype.trim on the inputs of the session
Trim(t) == IF t = " " THEN "" ELSE t

(***************************************************************************)
(* Files offered to the upload control.  `name` is the file name split at  *)
(* its dots; `decoded` is what the decoder of the file's format yields for *)
(* its bytes after cleanText: a text, or "FAIL" when the decoder rejects.  *)
(***************************************************************************)
Files ==
    { [name |-> <<"report", "PDF">>, decoded |-> "T_LONG"],
      [name |-> <<"broken", "docx">>, decoded |-> "FAIL"],
      [name |-> <<"tool", "exe">>,   decoded |-> "T_SHORT"] }

\* an extension compared as it is written in the file name
keepCase(ext) == ext

toLowerCase(ext) ==
    CASE ext = "PDF"  -> "pdf"
      [] ext = "Pdf"  -> "pdf"
      [] ext = "DOCX" -> "docx"
      [] ext = "Docx" -> "docx"
      [] ext = "TXT"  -> "txt"
      [] ext = "EXE"  -> "exe"
      [] OTHER        -> ext

\* file.name.split('.').pop()?.toLowerCase()
extensionOf(file) == toLowerCase(file.name[Len(file.name)])

\* extractTextFromFile: [ok, text] on success, [ok, message] on a throw
extractTextFromFile(file) ==
    IF extensionOf(file) \in {"pdf", "docx", "txt"}
    THEN IF file.decoded = "FAIL"
         THEN [ok |-> FALSE, message |-> "decoder error"]
         ELSE [ok |-> TRUE, text |-> file.decoded]
    ELSE [ok |-> FALSE, message |-> "Unsupported file type: " \o extensionOf(file)]

(***************************************************************************)
(* SpecExtract: one call of extractTextFromFile, followed step by step.    *)
(* A file is [name, bytes, raw]: the name split at its dots, whether the   *)
(* library of its format can read the bytes, and the text the library      *)
(* yields for them.  An error is [name, message]: the name of the thrown   *)
(* object's class and the parts of its message.                            *)
(*   entered    the call has begun                                         *)
(*   decoding   the decoder chosen by the switch is awaited                *)
(*   returned   the call returned a text                                   *)
(*   thrown     the call threw                                             *)
(***************************************************************************)
ExtractStems == {<<>>, <<"report">>, <<"archive", "tar">>}

ExtractExtensions ==
    {"pdf", "PDF", "Pdf", "docx", "DOCX", "Docx", "txt", "TXT", "exe", "EXE", ""}

ExtractFiles ==
    [name  : {stem \o <<ext>> : stem \in ExtractStems, ext \in ExtractExtensions},
     bytes : {"readable", "malformed"},
     raw   : {ScenarioText, <<>>}]

NoErrorObject == [name |-> "", message |-> <<>>]

NoExtractor ==
    [pc |-> "idle", file |-> <<>>, decoder |-> "none", attempts |-> 0,
     text |-> <<>>, error |-> NoErrorObject]

extractEnter(file) == [NoExtractor EXCEPT !.pc = "entered", !.file = file]

\* the cases of the switch
decoderOf(extension) ==
    CASE extension = "pdf"  -> "extractTextFromPDF"
      [] extension = "docx" -> "extractTextFromDocx"
      [] extension = "txt"  -> "extractTextFromTxt"
      [] OTHER              -> "none"

\* new Error(`Unsupported file type: ${extension}`)
unsupportedError(extension) ==
    [name |-> "Error", message |-> <<"Unsupported file type: ", extension>>]

\* what the libraries reject with: they are given the bytes of the file and
\* nothing else (pdfjsLib.getDocument({ data }), mammoth.extractRawText({
\* arrayBuffer })); the FileReader rejects with its error event, which has
\* no message
libraryErrors(decoder) ==
    CASE decoder = "extractTextFromPDF" ->
            { [name |-> "InvalidPDFException", message |-> <<"Invalid PDF structure.">>],
              [name |-> "UnknownErrorException", message |-> <<>>] }
      [] decoder = "extractTextFromDocx" ->
            { [name |-> "Error", message |-> <<"Can't find end of central directory">>] }
      [] OTHER ->
            { [name |-> "ProgressEvent", message |-> <<>>] }

\* const extension = ...; switch (extension)
ExtractDispatch ==
    /\ extractor.pc = "entered"
    /\ LET extension == extensionOf(extractor.file)
       IN  IF decoderOf(extension) # "none"
           THEN extractor' = [extractor EXCEPT !.pc = "decoding",
                                               !.decoder = decoderOf(extension),
                                               !.attempts = @ + 1]
           ELSE extractor' = [extractor EXCEPT !.pc = "thrown",
                                               !.error = unsupportedError(extension)]
    /\ UNCHANGED <<chunker, cleaner>>
    /\ UNCHANGED appVars

\* return cleanText(...) of the decoder
DecoderReturns ==
    /\ extractor.pc = "decoding"
    /\ extractor.file.bytes = "readable"
    /\ extractor' = [extractor EXCEPT !.pc = "returned",
                                      !.text = cleanText(extractor.file.raw)]
    /\ UNCHANGED <<chunker, cleaner>>
    /\ UNCHANGED appVars

\* the library rejects: the awaits of the decoder and of extractTextFromFile
\* rethrow what it rejected with
DecoderThrows ==
    /\ extractor.pc = "decoding"
    /\ extractor.file.bytes = "malformed"
    /\ \E e \in libraryErrors(extractor.decoder) :
          extractor' = [extractor EXCEPT !.pc = "thrown", !.error = e]
    /\ UNCHANGED <<chunker, cleaner>>
    /\ UNCHANGED appVars

NextExtract == ExtractDispatch \/ DecoderReturns \/ DecoderThrows

DocIdPool == <<"d1", "d2", "d3", "d4", "d5">>

\* the DocumentInfo built by handleFileUpload (type, size and uploadDate are
\* display-only and left out)
newDoc(file, text, id) ==
    [id |-> id, name |-> file.name, content |-> text,
     chunkCount |-> Len(chunkTextDefault(Chars(text)))]

\* a document saved by an earlier session, from an empty text file
SavedDoc == newDoc([name |-> <<"notes", "txt">>, decoded |-> "T_EMPTY"], "T_EMPTY", "d0")


\* a history saved by an earlier session (req 0: no call of this session)
SavedHistory ==
    << [role |-> "user", content |-> "q0", sources |-> <<>>, req |-> 0],
       [role |-> "assistant", content |-> "a0", sources |-> <<SavedDoc.name>>, req |-> 0] >>

\* what earlier sessions left behind: nothing, or a document and a history
InitialSessions ==
    { [store |-> <<>>, history |-> <<>>],
      [store |-> <<SavedDoc>>, history |-> SavedHistory] }


(***************************************************************************)
(* llmService.ts, generateResponse.                                        *)
(***************************************************************************)
FALLBACK == "A-Mesob Assistances: I'm sorry, I don't know based on the provided documents."
TRUNCATION_MARKER == <<"...[Content truncated]">>

\* const trimmedContext = context.length > 800000 ? ... : context
trimmedContext(context) ==
    IF Len(context) > CONTEXT_CEILING
    THEN substring(context, 0, CONTEXT_CEILING) \o TRUNCATION_MARKER
    ELSE context

\* the template literal: its fixed text around the one interpolation, ${fallback}
systemInstruction == <<"RULES_HEAD", FALLBACK, "RULES_TAIL">>

\* contents: the history mapped to {role, parts}, then the question
contentsOf(question, history) ==
    [i \in 1..Len(history) |->
        [role |-> IF history[i].role = "user" THEN "user" ELSE "model",
         text |-> history[i].content]]
    \o << [role |-> "user", text |-> question] >>

\* the argument of ai.models.generateContent
generateContentRequest(question, context, history) ==
    [contents |-> contentsOf(question, history),
     systemInstruction |-> systemInstruction]

\* what the remote model may answer: response.text, "" for undefined
RemoteTexts == {"**ans**"}

postProcessResponse(text) ==
    CASE text = "" -> ""
      [] text = "**ans**" -> "ans"
      [] OTHER -> text

\* generateResponse after the awaited generateContent resolved with `text`
generateResponseResolved(aborted, text) ==
    IF aborted
    THEN [ok |-> FALSE, message |-> "Generation interrupted by analyst."]
    ELSE [ok |-> TRUE,
          text |-> postProcessResponse(IF text = "" THEN FALLBACK ELSE text)]

\* generateResponse after the awaited generateContent rejected
generateResponseRejected == [ok |-> FALSE, message |-> "Scout Engine Error."]

(***************************************************************************)
(* App.tsx: helpers.                                                       *)
(***************************************************************************)
\* the values a handler created in the current render closes over
Render ==
    [isProcessing |-> isProcessing, activeDocumentId |-> activeDocumentId,
     documents |-> documents, messages |-> messages, input |-> input]

\* Array.prototype.find(d => d.id === id): <<>> for undefined
find(docs, id) ==
    LET hits == {i \in 1..Len(docs) : docs[i].id = id}
    IN  IF hits = {} THEN <<>>
        ELSE << docs[CHOOSE i \in hits : \A j \in hits : i <= j] >>

\* Array.prototype.filter(d => d.id !== id)
\* a filter that keeps every document
keepAll(docs, id) == docs

RECURSIVE filterOut(_, _)
filterOut(docs, id) ==
    IF docs = <<>> THEN <<>>
    ELSE IF Head(docs).id = id THEN filterOut(Tail(docs), id)
         ELSE <<Head(docs)>> \o filterOut(Tail(docs), id)

\* Array.prototype.slice(-n)
sliceLast(msgs, n) == SubSeq(msgs, Max(1, Len(msgs) - n + 1), Len(msgs))

\* useEffect on [state.messages, state.user]: the history is saved
persistHistory(u, msgs, old) == IF u # NoUser /\ Len(msgs) > 0 THEN msgs ELSE old

\* the guards of handleSendMessage (lines 276 and 279)
canSend(r, finalInput) ==
    /\ Trim(finalInput) # ""
    /\ ~r.isProcessing
    /\ r.activeDocumentId # NoDoc
    /\ find(r.documents, r.activeDocumentId) # <<>>

\* sources: [activeDoc.name]
assistantSources(call) == << call.docName >>

\* the name of the document that is active now, <<>> when none is
activeNameNow ==
    LET d == find(documents, activeDocumentId)
    IN  IF d = <<>> THEN <<>> ELSE << d[1].name >>

(***************************************************************************)
(* handleSendMessage up to its await, called from render r with            *)
(* overrideInput || input = finalInput by recorder rec (NoRecorder for the *)
(* form); `entered` is the textarea's text when the guards refuse.         *)
(* A call is the generateResponse call with its arguments, its signal      *)
(* (aborted) and its status: "outstanding" until it returns or throws.     *)
(* Two fields observe the session for the properties below and are read by *)
(* no handler: activeAtSend, the name of the document active when the      *)
(* handler ran, and interrupted, set once handleInterrupt runs while the   *)
(* call is outstanding.  req in a message is the call it belongs to.       *)
(***************************************************************************)
\* a history that keeps the new message only
onlyMessage(prevMessages, message) == <<message>>

\* setState(prev => ({ ...prev, messages: [...prev.messages, message] }))
appendMessage(prevMessages, message) == Append(prevMessages, message)

handleSendMessage(r, finalInput, rec, entered) ==
    IF canSend(r, finalInput)
    THEN LET activeDoc == find(r.documents, r.activeDocumentId)[1]
             c == Len(calls) + 1
         IN  /\ messages' = appendMessage(messages,
                    [role |-> "user", content |-> finalInput,
                     sources |-> <<>>, req |-> c])
             /\ isProcessing' = TRUE
             /\ input' = ""
             /\ error' = NoError
             /\ abortControllerRef' = c
             /\ calls' = Append(calls,
                    [question |-> finalInput,
                     context |-> activeDoc.content,
                     docName |-> activeDoc.name,
                     history |-> sliceLast(r.messages, HISTORY_WINDOW),
                     aborted |-> FALSE,
                     status |-> "outstanding",
                     recorder |-> rec,
                     activeAtSend |-> activeNameNow,
                     interrupted |-> FALSE])
             /\ historyStore' = persistHistory(user, messages', historyStore)
    ELSE /\ input' = entered
         /\ UNCHANGED <<messages, isProcessing, error, abortControllerRef,
                        calls, historyStore>>


(***************************************************************************)
(* The session's initial state: the component is mounted, a user is saved  *)
(* in localStorage and loadSession awaits docDB.getAllDocuments().         *)
(***************************************************************************)
Init ==
    /\ chunker = NoChunker
    /\ cleaner = NoCleaner
    /\ extractor = NoExtractor
    /\ audioChunksRef = <<>>
    /\ user = NoUser
    /\ messages = <<>>
    /\ documents = <<>>
    /\ isProcessing = FALSE
    /\ activeDocumentId = NoDoc
    /\ input = ""
    /\ error = NoError
    /\ isRecording = FALSE
    /\ isTranscribing = FALSE
    /\ abortControllerRef = NoCall
    /\ mediaRecorderRef = NoRecorder
    /\ calls = <<>>
    /\ recorders = <<>>
    /\ uploads = <<>>
    /\ deletes = {}
    /\ \E s \in InitialSessions : store = s.store /\ historyStore = s.history
    /\ sessionPc = "loading"

Loaded == sessionPc = "loaded"

\* savedDocs.length > 0 ? (prev.activeDocumentId || savedDocs[0].id) : null
loadActive(prevActive, savedDocs) ==
    IF Len(savedDocs) > 0
    THEN (IF prevActive # NoDoc THEN prevActive ELSE savedDocs[1].id)
    ELSE NoDoc

\* loadSession after getAllDocuments resolved
LoadSession ==
    /\ sessionPc = "loading"
    /\ sessionPc' = "loaded"
    /\ user' = SavedUser
    /\ documents' = store
    /\ messages' = historyStore
    /\ activeDocumentId' = loadActive(activeDocumentId, store)
    /\ historyStore' = persistHistory(user', messages', historyStore)
    /\ UNCHANGED <<procVars, audioChunksRef, isProcessing, input, error, isRecording,
                   isTranscribing, abortControllerRef, mediaRecorderRef, calls,
                   recorders, uploads, deletes, store>>

\* loadSession when getAllDocuments rejects or the saved history does not
\* parse: the saved user is removed and the login form stays
LoadSessionThrows ==
    /\ sessionPc = "loading"
    /\ sessionPc' = "failed"
    /\ UNCHANGED <<procVars, audioChunksRef, user, messages, documents, isProcessing,
                   activeDocumentId, input, error, isRecording, isTranscribing,
                   abortControllerRef, mediaRecorderRef, calls, recorders,
                   uploads, deletes, store, historyStore>>

(***************************************************************************)
(* The chat form.                                                          *)
(***************************************************************************)
TypedInputs == {"q1"}

\* the textarea's onChange; it is disabled without an active document and
\* while processing or transcribing
TypeInput ==
    /\ Loaded
    /\ activeDocumentId # NoDoc /\ ~isProcessing /\ ~isTranscribing
    /\ \E t \in TypedInputs : input' = t
    /\ UNCHANGED <<procVars, audioChunksRef, user, messages, documents, isProcessing,
                   activeDocumentId, error, isRecording, isTranscribing,
                   abortControllerRef, mediaRecorderRef, calls, recorders,
                   uploads, deletes, store, historyStore, sessionPc>>

\* the form's onSubmit through the send button, which replaces the interrupt
\* button while not processing and is disabled on a blank input, without an
\* active document and while transcribing
SubmitForm(limit) ==
    /\ Loaded
    /\ ~isProcessing
    /\ Trim(input) # "" /\ activeDocumentId # NoDoc /\ ~isTranscribing
    /\ Len(calls) < limit
    /\ handleSendMessage(Render, input, NoRecorder, input)
    /\ UNCHANGED <<procVars, audioChunksRef, user, documents, activeDocumentId, isRecording,
                   isTranscribing, mediaRecorderRef, recorders, uploads,
                   deletes, store, sessionPc>>

\* handleInterrupt's effect on the calls: the AbortController the ref holds
\* is aborted.  `interrupted` records, for every call outstanding now, that
\* handleInterrupt ran while it was outstanding.
interruptCalls(cs, ref) ==
    [c \in 1..Len(cs) |->
        [cs[c] EXCEPT !.aborted = (@ \/ c = ref),
                      !.interrupted = (@ \/ cs[c].status = "outstanding")]]

\* handleInterrupt; its button is shown while state.isProcessing
handleInterrupt ==
    /\ Loaded
    /\ isProcessing
    /\ calls' = interruptCalls(calls, abortControllerRef)
    /\ abortControllerRef' = NoCall
    /\ isProcessing' = FALSE
    /\ error' = "Analysis interrupted by user."
    /\ UNCHANGED <<procVars, audioChunksRef, user, messages, documents, activeDocumentId, input,
                   isRecording, isTranscribing, mediaRecorderRef, recorders,
                   uploads, deletes, store, historyStore, sessionPc>>

\* the render no handler refers to any more
NoRender ==
    [isProcessing |-> FALSE, activeDocumentId |-> NoDoc, documents |-> <<>>,
     messages |-> <<>>, input |-> ""]

\* a recorder whose callbacks have all run
recorderEnded(pc) == [pc |-> pc, render |-> NoRender, size |-> 0, blob |-> <<>>]

\* a call that returned or threw: its arguments are no longer referenced
callEnded(call, ok) ==
    [call EXCEPT !.status = IF ok THEN "returned" ELSE "thrown",
                 !.question = "", !.context = "", !.history = <<>>]

(***************************************************************************)
(* handleSendMessage after its await: generateResponse returned or threw.  *)
(* A call made by processAudioInput is awaited there, and                  *)
(* setIsTranscribing(false) follows.                                       *)
(***************************************************************************)
afterSendMessage(c, res) ==
    /\ IF res.ok
       THEN /\ messages' = appendMessage(messages,
                   [role |-> "assistant", content |-> res.text,
                    sources |-> assistantSources(calls[c]), req |-> c])
            /\ error' = error
       ELSE /\ messages' = messages
            /\ error' = res.message
    /\ isProcessing' = FALSE
    /\ abortControllerRef' = NoCall
    /\ calls' = [calls EXCEPT ![c] = callEnded(@, res.ok)]
    /\ historyStore' = persistHistory(user, messages', historyStore)
    /\ IF calls[c].recorder # NoRecorder
       THEN /\ isTranscribing' = FALSE
            /\ recorders' = [recorders EXCEPT ![calls[c].recorder] = recorderEnded("done")]
       ELSE UNCHANGED <<isTranscribing, recorders>>
    /\ UNCHANGED <<procVars, audioChunksRef, user, documents, activeDocumentId, input,
                   isRecording, mediaRecorderRef, uploads, deletes, store,
                   sessionPc>>

\* the remote model answers call c
ResponseResolves ==
    \E c \in 1..Len(calls) : \E text \in RemoteTexts :
        /\ calls[c].status = "outstanding"
        /\ afterSendMessage(c, generateResponseResolved(calls[c].aborted, text))

\* the remote call of c fails
ResponseRejects ==
    \E c \in 1..Len(calls) :
        /\ calls[c].status = "outstanding"
        /\ afterSendMessage(c, generateResponseRejected)


(***************************************************************************)
(* Voice input.  A recorder is [pc, render, size, blob]: render is the      *)
(* render in which startRecording was created, the one its onstop          *)
(* callback, and through it processAudioInput and handleSendMessage, read  *)
(* `state` and `input` from; size is the size of the audio it recorded and *)
(* blob the recorders whose audio is in the Blob built by its onstop, both *)
(* kept until llmService.transcribeAudio has answered.  The array of       *)
(* audioChunksRef is the sequence of the recorders whose audio it holds.   *)
(* A recorder started without a timeslice delivers its audio in one        *)
(* dataavailable event, fired in the same task as its stop event.          *)
(*   acquiring     getUserMedia is awaited                                 *)
(*   recording     mediaRecorder.start() was called                        *)
(*   stopping      stop() was called, the stop event is not yet delivered  *)
(*   reading       processAudioInput awaits the FileReader                 *)
(*   transcribing  llmService.transcribeAudio is awaited                   *)
(*   sending       handleSendMessage is awaited                            *)
(*   done, denied, crashed                                                 *)
(***************************************************************************)
Transcripts == {"q2", ""}

\* event.data.size of the recordings followed in Spec, and in SpecVoice
AudioSizes == {1}
AudioSizesVoice == {0, 1}

\* the microphone button is disabled without an active document and while
\* processing or transcribing
MicEnabled == activeDocumentId # NoDoc /\ ~isProcessing /\ ~isTranscribing

\* startRecording up to its await
startRecording(limit) ==
    /\ Loaded
    /\ MicEnabled /\ ~isRecording
    /\ Len(recorders) < limit
    /\ recorders' = Append(recorders, [pc |-> "acquiring", render |-> Render,
                                       size |-> 0, blob |-> <<>>])
    /\ UNCHANGED <<procVars, audioChunksRef, user, messages, documents, isProcessing,
                   activeDocumentId, input, error, isRecording, isTranscribing,
                   abortControllerRef, mediaRecorderRef, calls, uploads,
                   deletes, store, historyStore, sessionPc>>

\* startRecording after getUserMedia resolved
MediaGranted ==
    \E r \in 1..Len(recorders) :
        /\ recorders[r].pc = "acquiring"
        /\ recorders' = [recorders EXCEPT ![r].pc = "recording"]
        /\ mediaRecorderRef' = r
        /\ audioChunksRef' = <<>>
        /\ isRecording' = TRUE
        /\ error' = NoError
        /\ UNCHANGED <<procVars, user, messages, documents, isProcessing,
                       activeDocumentId, input, isTranscribing,
                       abortControllerRef, calls, uploads, deletes, store,
                       historyStore, sessionPc>>

\* startRecording after getUserMedia rejected
MediaDenied ==
    \E r \in 1..Len(recorders) :
        /\ recorders[r].pc = "acquiring"
        /\ recorders' = [recorders EXCEPT ![r] = recorderEnded("denied")]
        /\ error' = "Microphone access denied."
        /\ UNCHANGED <<procVars, audioChunksRef, user, messages, documents, isProcessing,
                       activeDocumentId, input, isRecording, isTranscribing,
                       abortControllerRef, mediaRecorderRef, calls, uploads,
                       deletes, store, historyStore, sessionPc>>

\* stopRecording
stopRecording ==
    /\ Loaded
    /\ MicEnabled /\ isRecording
    /\ IF mediaRecorderRef # NoRecorder /\ isRecording
       THEN /\ recorders' =
                  [recorders EXCEPT ![mediaRecorderRef].pc =
                      IF @ = "recording" THEN "stopping" ELSE @]
            /\ isRecording' = FALSE
       ELSE UNCHANGED <<recorders, isRecording>>
    /\ UNCHANGED <<procVars, audioChunksRef, user, messages, documents, isProcessing,
                   activeDocumentId, input, error, isTranscribing,
                   abortControllerRef, mediaRecorderRef, calls, uploads,
                   deletes, store, historyStore, sessionPc>>

\* mediaRecorder.ondataavailable with the audio of recorder r
ondataavailableIgnored(chunks, r, size) == chunks

ondataavailable(chunks, r, size) == IF size > 0 THEN Append(chunks, r) ELSE chunks

\* the task queued by stop(): the dataavailable event with the recorded
\* audio, of one of the given sizes, then mediaRecorder.onstop:
\* new Blob(audioChunksRef.current) and processAudioInput up to
\* reader.readAsDataURL
RecorderOnStop(sizes) ==
    \E r \in 1..Len(recorders) : \E size \in sizes :
        /\ recorders[r].pc = "stopping"
        /\ audioChunksRef' = ondataavailable(audioChunksRef, r, size)
        /\ recorders' = [recorders EXCEPT ![r].pc = "reading",
                                          ![r].size = size,
                                          ![r].blob = audioChunksRef']
        /\ isTranscribing' = TRUE
        /\ UNCHANGED <<procVars, user, messages, documents, isProcessing,
                       activeDocumentId, input, error, isRecording,
                       abortControllerRef, mediaRecorderRef, calls, uploads,
                       deletes, store, historyStore, sessionPc>>

\* reader.onloadend up to the await of llmService.transcribeAudio
ReaderOnLoadEnd ==
    \E r \in 1..Len(recorders) :
        /\ recorders[r].pc = "reading"
        /\ recorders' = [recorders EXCEPT ![r].pc = "transcribing"]
        /\ UNCHANGED <<procVars, audioChunksRef, user, messages, documents, isProcessing,
                       activeDocumentId, input, error, isRecording,
                       isTranscribing, abortControllerRef, mediaRecorderRef,
                       calls, uploads, deletes, store, historyStore, sessionPc>>

\* transcribeAudio returned a transcript with speech: setInput, then
\* handleSendMessage(undefined, transcription) of the recorder's render
TranscriptArrives ==
    \E r \in 1..Len(recorders) : \E t \in Transcripts :
        /\ recorders[r].pc = "transcribing"
        /\ Trim(t) # ""
        /\ Len(calls) < MaxCalls
        /\ handleSendMessage(recorders[r].render, t, r, t)
        /\ IF canSend(recorders[r].render, t)
           THEN /\ recorders' = [recorders EXCEPT ![r].pc = "sending",
                                                  ![r].size = 0,
                                                  ![r].blob = <<>>]
                /\ isTranscribing' = isTranscribing
           ELSE /\ recorders' = [recorders EXCEPT ![r] = recorderEnded("done")]
                /\ isTranscribing' = FALSE
        /\ UNCHANGED <<procVars, audioChunksRef, user, documents, activeDocumentId, isRecording,
                       mediaRecorderRef, uploads, deletes, store, sessionPc>>

\* transcribeAudio returned no speech
TranscriptEmpty ==
    \E r \in 1..Len(recorders) : \E t \in Transcripts :
        /\ recorders[r].pc = "transcribing"
        /\ Trim(t) = ""
        /\ recorders' = [recorders EXCEPT ![r] = recorderEnded("done")]
        /\ error' = "No clear speech detected."
        /\ isTranscribing' = FALSE
        /\ UNCHANGED <<procVars, audioChunksRef, user, messages, documents, isProcessing,
                       activeDocumentId, input, isRecording,
                       abortControllerRef, mediaRecorderRef, calls, uploads,
                       deletes, store, historyStore, sessionPc>>

\* transcribeAudio threw: the rejection leaves the async onloadend callback,
\* outside the try of processAudioInput, and nothing handles it
TranscribeThrows ==
    \E r \in 1..Len(recorders) :
        /\ recorders[r].pc = "transcribing"
        /\ recorders' = [recorders EXCEPT ![r] = recorderEnded("crashed")]
        /\ UNCHANGED <<procVars, audioChunksRef, user, messages, documents, isProcessing,
                       activeDocumentId, input, error, isRecording,
                       isTranscribing, abortControllerRef, mediaRecorderRef,
                       calls, uploads, deletes, store, historyStore, sessionPc>>


(***************************************************************************)
(* docDB (./db): the document store behind save, getAll and delete.        *)
(***************************************************************************)
\* save(Document): the record is stored under its id
storeSave(st, doc) == Append(filterOut(st, doc.id), doc)

\* delete(id)
storeDelete(st, id) == filterOut(st, id)

(***************************************************************************)
(* handleFileUpload.  An activation is [file, pc, doc]:                    *)
(*   extracting  extractTextFromFile is awaited                            *)
(*   saving      docDB.saveDocument(newDoc) is awaited, doc = <<newDoc>>   *)
(*   done, failed                                                          *)
(***************************************************************************)
\* an activation that returned
uploadEnded(pc) == [file |-> <<>>, pc |-> pc, doc |-> <<>>]

\* handleFileUpload up to its first await; limit bounds the activations
handleFileUpload(limit) ==
    /\ Loaded
    /\ Len(uploads) < limit
    /\ \E f \in Files :
          uploads' = Append(uploads, [file |-> f, pc |-> "extracting", doc |-> <<>>])
    /\ isProcessing' = TRUE
    /\ UNCHANGED <<procVars, audioChunksRef, user, messages, documents, activeDocumentId, input,
                   error, isRecording, isTranscribing, abortControllerRef,
                   mediaRecorderRef, calls, recorders, deletes, store,
                   historyStore, sessionPc>>

\* extractTextFromFile returned: chunkText, newDoc, up to the await of save
ExtractReturns ==
    \E u \in 1..Len(uploads) :
        /\ uploads[u].pc = "extracting"
        /\ extractTextFromFile(uploads[u].file).ok
        /\ uploads' = [uploads EXCEPT
              ![u].pc = "saving",
              ![u].doc = << newDoc(uploads[u].file,
                                   extractTextFromFile(uploads[u].file).text,
                                   DocIdPool[u]) >>]
        /\ UNCHANGED <<procVars, audioChunksRef, user, messages, documents, isProcessing,
                       activeDocumentId, input, error, isRecording,
                       isTranscribing, abortControllerRef, mediaRecorderRef,
                       calls, recorders, deletes, store, historyStore,
                       sessionPc>>

\* a catch that reports the error and leaves the processing flag set
uploadFailedStillProcessing(u, message) ==
    /\ uploads' = [uploads EXCEPT ![u] = uploadEnded("failed")]
    /\ error' = message
    /\ UNCHANGED <<procVars, audioChunksRef, user, messages, documents,
                   isProcessing, activeDocumentId, input, isRecording,
                   isTranscribing, abortControllerRef, mediaRecorderRef,
                   calls, recorders, deletes, store, historyStore, sessionPc>>

\* the catch of handleFileUpload
uploadFailed(u, message) ==
    /\ uploads' = [uploads EXCEPT ![u] = uploadEnded("failed")]
    /\ error' = message
    /\ isProcessing' = FALSE
    /\ UNCHANGED <<procVars, audioChunksRef, user, messages, documents, activeDocumentId, input,
                   isRecording, isTranscribing, abortControllerRef,
                   mediaRecorderRef, calls, recorders, deletes, store,
                   historyStore, sessionPc>>

\* extractTextFromFile threw
ExtractThrows ==
    \E u \in 1..Len(uploads) :
        /\ uploads[u].pc = "extracting"
        /\ ~extractTextFromFile(uploads[u].file).ok
        /\ uploadFailed(u, extractTextFromFile(uploads[u].file).message)

\* docDB.saveDocument resolved
SaveReturns ==
    \E u \in 1..Len(uploads) :
        /\ uploads[u].pc = "saving"
        /\ uploads' = [uploads EXCEPT ![u] = uploadEnded("done")]
        /\ store' = storeSave(store, uploads[u].doc[1])
        /\ documents' = Append(documents, uploads[u].doc[1])
        /\ activeDocumentId' = uploads[u].doc[1].id
        /\ isProcessing' = FALSE
        /\ UNCHANGED <<procVars, audioChunksRef, user, messages, input, error, isRecording,
                       isTranscribing, abortControllerRef, mediaRecorderRef,
                       calls, recorders, deletes, historyStore, sessionPc>>

\* docDB.saveDocument rejected
SaveThrows ==
    \E u \in 1..Len(uploads) :
        /\ uploads[u].pc = "saving"
        /\ uploadFailed(u, "Ingestion error.")

(***************************************************************************)
(* handleDeleteDocument and the sidebar.                                   *)
(***************************************************************************)
\* the delete button of a listed document, confirmed: up to the await
handleDeleteDocument ==
    /\ Loaded
    /\ \E i \in 1..Len(documents) : deletes' = deletes \cup {documents[i].id}
    /\ UNCHANGED <<procVars, audioChunksRef, user, messages, documents, isProcessing,
                   activeDocumentId, input, error, isRecording, isTranscribing,
                   abortControllerRef, mediaRecorderRef, calls, recorders,
                   uploads, store, historyStore, sessionPc>>

\* the delete button of a listed document, the confirmation declined
DeleteDeclined ==
    /\ Loaded
    /\ Len(documents) > 0
    /\ UNCHANGED vars

\* the state update of handleDeleteDocument, keeping the active id
deletedActiveKept(prevActive, id, updatedDocuments) == prevActive

\* prev.activeDocumentId === id ? (updatedDocuments[0]?.id || null) : prev.activeDocumentId
deletedActive(prevActive, id, updatedDocuments) ==
    IF prevActive = id
    THEN (IF Len(updatedDocuments) > 0 THEN updatedDocuments[1].id ELSE NoDoc)
    ELSE prevActive

\* docDB.deleteDocument resolved
DeleteReturns ==
    \E id \in deletes :
        /\ deletes' = deletes \ {id}
        /\ store' = storeDelete(store, id)
        /\ documents' = filterOut(documents, id)
        /\ activeDocumentId' = deletedActive(activeDocumentId, id, documents')
        /\ UNCHANGED <<procVars, audioChunksRef, user, messages, isProcessing, input, error,
                       isRecording, isTranscribing, abortControllerRef,
                       mediaRecorderRef, calls, recorders, uploads,
                       historyStore, sessionPc>>

\* docDB.deleteDocument rejected
DeleteThrows ==
    \E id \in deletes :
        /\ deletes' = deletes \ {id}
        /\ error' = "Deletion failed."
        /\ UNCHANGED <<procVars, audioChunksRef, user, messages, documents, isProcessing,
                       activeDocumentId, input, isRecording, isTranscribing,
                       abortControllerRef, mediaRecorderRef, calls, recorders,
                       uploads, store, historyStore, sessionPc>>

\* a document of the sidebar's list is clicked
SelectDocument ==
    /\ Loaded
    /\ \E i \in 1..Len(documents) : activeDocumentId' = documents[i].id
    /\ UNCHANGED <<procVars, audioChunksRef, user, messages, documents, isProcessing, input,
                   error, isRecording, isTranscribing, abortControllerRef,
                   mediaRecorderRef, calls, recorders, uploads, deletes, store,
                   historyStore, sessionPc>>

Next ==
    \/ LoadSession
    \/ LoadSessionThrows
    \/ TypeInput
    \/ SubmitForm(MaxCalls)
    \/ handleInterrupt
    \/ ResponseResolves
    \/ ResponseRejects
    \/ startRecording(MaxRecordings)
    \/ MediaGranted
    \/ MediaDenied
    \/ stopRecording
    \/ RecorderOnStop(AudioSizes)
    \/ ReaderOnLoadEnd
    \/ TranscriptArrives
    \/ TranscriptEmpty
    \/ TranscribeThrows
    \/ handleFileUpload(MaxUploads)
    \/ ExtractReturns
    \/ ExtractThrows
    \/ SaveReturns
    \/ SaveThrows
    \/ handleDeleteDocument
    \/ DeleteDeclined
    \/ DeleteReturns
    \/ DeleteThrows
    \/ SelectDocument

Spec == Init /\ [][Next]_vars

(***************************************************************************)
(* SpecChunk: chunkText is entered with inputs drawn from the bounded sets *)
(* and runs its loop.  While a loop runs its next iteration is taken:      *)
(* SpecChunkFair states that.                                              *)
(***************************************************************************)
InitChunk ==
    /\ chunker \in {chunkEnter(t, s, o) :
                      t \in ChunkTexts, s \in ChunkParams, o \in ChunkParams}
    /\ cleaner = NoCleaner
    /\ extractor = NoExtractor
    /\ audioChunksRef = <<>>
    /\ user = NoUser
    /\ messages = <<>>
    /\ documents = <<>>
    /\ isProcessing = FALSE
    /\ activeDocumentId = NoDoc
    /\ input = ""
    /\ error = NoError
    /\ isRecording = FALSE
    /\ isTranscribing = FALSE
    /\ abortControllerRef = NoCall
    /\ mediaRecorderRef = NoRecorder
    /\ calls = <<>>
    /\ recorders = <<>>
    /\ uploads = <<>>
    /\ deletes = {}
    /\ store = <<>>
    /\ historyStore = <<>>
    /\ sessionPc = "loading"

SpecChunk == InitChunk /\ [][NextChunk]_vars

SpecChunkFair == SpecChunk /\ WF_vars(NextChunk)

\* the session before anything of it has run
IdleSession ==
    /\ user = NoUser
    /\ messages = <<>>
    /\ documents = <<>>
    /\ isProcessing = FALSE
    /\ activeDocumentId = NoDoc
    /\ input = ""
    /\ error = NoError
    /\ isRecording = FALSE
    /\ isTranscribing = FALSE
    /\ abortControllerRef = NoCall
    /\ mediaRecorderRef = NoRecorder
    /\ audioChunksRef = <<>>
    /\ calls = <<>>
    /\ recorders = <<>>
    /\ uploads = <<>>
    /\ deletes = {}
    /\ store = <<>>
    /\ historyStore = <<>>
    /\ sessionPc = "loading"

InitClean ==
    /\ cleaner \in {cleanEnter(t) : t \in CleanTexts}
    /\ chunker = NoChunker
    /\ extractor = NoExtractor
    /\ IdleSession

SpecClean == InitClean /\ [][NextClean]_vars

InitExtract ==
    /\ extractor \in {extractEnter(f) : f \in ExtractFiles}
    /\ chunker = NoChunker
    /\ cleaner = NoCleaner
    /\ IdleSession

SpecExtract == InitExtract /\ [][NextExtract]_vars


(***************************************************************************)
(* SpecDocs: the document handlers alone (load, upload, delete, selection, *)
(* and interrupt, whose button an upload shows).  The chat and voice       *)
(* handlers assign none of documents, activeDocumentId, uploads, deletes   *)
(* and store, and no guard of a document handler reads what they assign.   *)
(***************************************************************************)
NextDocs ==
    \/ LoadSession
    \/ LoadSessionThrows
    \/ handleInterrupt
    \/ handleFileUpload(MaxUploadsDocs)
    \/ ExtractReturns
    \/ ExtractThrows
    \/ SaveReturns
    \/ SaveThrows
    \/ handleDeleteDocument
    \/ DeleteDeclined
    \/ DeleteReturns
    \/ DeleteThrows
    \/ SelectDocument

SpecDocs == Init /\ [][NextDocs]_vars

(***************************************************************************)
(* SpecChat: the session without voice input: typed messages and their     *)
(* responses, interrupt, and the document handlers.                        *)
(***************************************************************************)
NextChat ==
    \/ LoadSession
    \/ LoadSessionThrows
    \/ TypeInput
    \/ SubmitForm(MaxCallsChat)
    \/ handleInterrupt
    \/ ResponseResolves
    \/ ResponseRejects
    \/ handleFileUpload(MaxUploads)
    \/ ExtractReturns
    \/ ExtractThrows
    \/ SaveReturns
    \/ SaveThrows
    \/ handleDeleteDocument
    \/ DeleteDeclined
    \/ DeleteReturns
    \/ DeleteThrows
    \/ SelectDocument

SpecChat == Init /\ [][NextChat]_vars

(***************************************************************************)
(* SpecVoice: the voice handlers and what they start (the send of the      *)
(* transcript and its response), with interrupt.  Two recordings are       *)
(* followed, so that one can be started while the stop event of the other  *)
(* is awaited, and a recording may hold no audio.                          *)
(*                                                                         *)
(* SpecVoiceFair: what the browser and the remote service owe is           *)
(* delivered: the stop event of a stopped recorder, the FileReader's       *)
(* loadend, an answer or a failure of each transcription and of each       *)
(* generateResponse call.  Nothing is assumed of the user.                 *)
(***************************************************************************)
TranscribeSettles == TranscriptArrives \/ TranscriptEmpty \/ TranscribeThrows

ResponseSettles == ResponseResolves \/ ResponseRejects

NextVoice ==
    \/ LoadSession
    \/ LoadSessionThrows
    \/ handleInterrupt
    \/ startRecording(MaxRecordingsVoice)
    \/ MediaGranted
    \/ MediaDenied
    \/ stopRecording
    \/ RecorderOnStop(AudioSizesVoice)
    \/ ReaderOnLoadEnd
    \/ TranscriptArrives
    \/ TranscriptEmpty
    \/ TranscribeThrows
    \/ ResponseResolves
    \/ ResponseRejects

SpecVoice == Init /\ [][NextVoice]_vars

SpecVoiceFair ==
    /\ SpecVoice
    /\ WF_vars(LoadSession \/ LoadSessionThrows)
    /\ WF_vars(MediaGranted \/ MediaDenied)
    /\ WF_vars(RecorderOnStop(AudioSizesVoice))
    /\ WF_vars(ReaderOnLoadEnd)
    /\ WF_vars(TranscribeSettles)
    /\ WF_vars(ResponseSettles)


(***************************************************************************)
(* Properties of the session.                                              *)
(***************************************************************************)
Outstanding == {c \in 1..Len(calls) : calls[c].status = "outstanding"}

AssistantMessagesOf(c) ==
    {i \in 1..Len(messages) : messages[i].role = "assistant" /\ messages[i].req = c}

UserMessagesOf(c) ==
    {i \in 1..Len(messages) : messages[i].role = "user" /\ messages[i].req = c}

\* C1: at most one generateResponse call that has neither returned nor
\* thrown is outstanding at any time, whatever the interleaving of typed and
\* voice sends, interrupts and response arrivals.
C1_AtMostOneOutstanding == Cardinality(Outstanding) <= 1

\* C2: once handleInterrupt has run, no assistant message is in the history
\* for a call that was outstanding when it ran, and the user message of that
\* call is still in the history.
C2_InterruptedGetsNoReply ==
    \A c \in 1..Len(calls) :
        calls[c].interrupted =>
            /\ AssistantMessagesOf(c) = {}
            /\ UserMessagesOf(c) # {}

DocumentIds == {documents[i].id : i \in 1..Len(documents)}

\* C3: in every reachable state, while store operations of load, upload and
\* delete are pending or not, activeDocumentId is null or the id of a
\* document in state.documents.
C3_ActiveIdValid == activeDocumentId = NoDoc \/ activeDocumentId \in DocumentIds

\* C3 witness: the session began with the saved document, which has been
\* deleted while an uploaded document remains; the first remaining document
\* is the active one and a further delete is pending.
C3_Witness ==
    /\ Loaded
    /\ historyStore = SavedHistory
    /\ SavedDoc.id \notin DocumentIds
    /\ Len(documents) > 0
    /\ activeDocumentId = documents[1].id
    /\ deletes # {}

\* C4: every assistant message appended by handleSendMessage has exactly one
\* source, the name of the document that was active when its question was
\* sent.
C4_SourceIsActiveAtSend ==
    \A i \in 1..Len(messages) :
        (messages[i].role = "assistant" /\ messages[i].req # 0) =>
            /\ Len(messages[i].sources) = 1
            /\ messages[i].sources = calls[messages[i].req].activeAtSend

\* whether text t occurs in text p
IsSubstring(t, p) ==
    \E i \in 0..(Len(p) - Len(t)) : SubSeq(p, i + 1, i + Len(t)) = t

\* the texts of a generateContent request: the parts of the contents and the
\* pieces of the system instruction
RequestTexts(request) ==
    {Chars(request.contents[i].text) : i \in 1..Len(request.contents)}
    \cup {Chars(request.systemInstruction[i]) : i \in 1..Len(request.systemInstruction)}

\* C5: the request generateResponse sends for a call contains the document
\* context passed to it: the whole context up to 800,000 characters, else
\* its first 800,000 characters followed by the truncation marker.
C5_RequestCarriesContext ==
    \A c \in Outstanding :
        \E p \in RequestTexts(generateContentRequest(
                    calls[c].question, Chars(calls[c].context), calls[c].history)) :
            IsSubstring(trimmedContext(Chars(calls[c].context)), p)

\* every document record the session holds: listed, stored, or being saved
HeldDocuments ==
    {documents[i] : i \in 1..Len(documents)}
    \cup {store[i] : i \in 1..Len(store)}
    \cup {uploads[u].doc[1] : u \in {v \in 1..Len(uploads) : uploads[v].doc # <<>>}}

\* C6: every document handleFileUpload saves and adds to state.documents has
\* chunkCount equal to the number of chunks chunkText makes of its content
\* with size 2000 and overlap 200.
C6_ChunkCountMatches ==
    \A d \in HeldDocuments :
        d.chunkCount = Len(chunkText(Chars(d.content), DEFAULT_SIZE, DEFAULT_OVERLAP))

\* C6 witness: an uploaded document of several chunks is listed and stored.
C6_Witness ==
    \E i \in 1..Len(documents) :
        /\ documents[i].id # SavedDoc.id
        /\ documents[i].chunkCount > 1
        /\ documents[i] \in {store[j] : j \in 1..Len(store)}


(***************************************************************************)
(* Properties of chunkText (SpecChunk, SpecChunkFair).                     *)
(***************************************************************************)
Returned == chunker.pc = "done"

\* the text "abcdefghij"
TenLetters == SubSeq(Alphabet, 1, 10)

\* the offsets k*(S-O) below the text length, as their indices k
WindowIndices(L, S, O) == {k \in 0..L : k * (S - O) < L}

\* C7: for S > O >= 0 chunkText returns exactly the windows of the text: its
\* k-th element is the text from offset k*(S-O) to min(k*(S-O)+S, L), for
\* every k with k*(S-O) < L and no others; the empty text gives no chunk
\* and "abcdefghij" with S=4, O=1 gives abcd, defg, ghij, j.
C7_ChunksAreWindows ==
    (Returned /\ chunker.size > chunker.overlap) =>
        LET text == chunker.text
            L == Len(text)
            S == chunker.size
            O == chunker.overlap
            K == WindowIndices(L, S, O)
        IN  /\ Len(chunker.chunks) = Cardinality(K)
            /\ \A k \in K :
                  chunker.chunks[k + 1] =
                      SubSeq(text, k * (S - O) + 1, Min(k * (S - O) + S, L))
            /\ (text = <<>> => chunker.chunks = <<>>)
            /\ (text = TenLetters /\ S = 4 /\ O = 1 =>
                  chunker.chunks = << <<"a", "b", "c", "d">>, <<"d", "e", "f", "g">>,
                                      <<"g", "h", "i", "j">>, <<"j">> >>)

\* C7 witness: chunkText("abcdefghij", 4, 1) has returned.
C7_Witness ==
    /\ Returned
    /\ chunker.text = TenLetters /\ chunker.size = 4 /\ chunker.overlap = 1

RECURSIVE Flatten(_)
Flatten(seqs) == IF seqs = <<>> THEN <<>> ELSE Head(seqs) \o Flatten(Tail(seqs))

\* the first chunk, then every later chunk without its first O characters
Deduplicated(chunks, O) ==
    IF chunks = <<>> THEN <<>>
    ELSE chunks[1] \o
         Flatten([k \in 1..(Len(chunks) - 1) |->
                     substring(chunks[k + 1], O, Len(chunks[k + 1]))])

\* C8: for S > O > 0, the first chunk followed by every later chunk stripped
\* of its first O characters is the original text.
C8_Reconstructs ==
    (Returned /\ chunker.size > chunker.overlap /\ chunker.overlap > 0) =>
        Deduplicated(chunker.chunks, chunker.overlap) = chunker.text

\* C8 witness: a return with overlap, at least three chunks, and a last chunk
\* that lies wholly inside the region it shares with its predecessor.
C8_Witness ==
    /\ Returned
    /\ chunker.size > chunker.overlap /\ chunker.overlap > 0
    /\ Len(chunker.chunks) >= 3
    /\ Len(chunker.chunks[Len(chunker.chunks)]) <= chunker.overlap

\* ceil(a / b) for a >= 0, b > 0
Ceil(a, b) == (a + b - 1) \div b

\* C9 as stated: for S > O the number of chunks is
\* ceil(max(L - O, 0) / (S - O)).
C9_CountAsStated ==
    (Returned /\ chunker.size > chunker.overlap) =>
        Len(chunker.chunks) =
            Ceil(Max(Len(chunker.text) - chunker.overlap, 0),
                 chunker.size - chunker.overlap)

\* C9 amended: for S > O the number of chunks is ceil(L / (S - O)).
C9_Count ==
    (Returned /\ chunker.size > chunker.overlap) =>
        Len(chunker.chunks) =
            Ceil(Len(chunker.text), chunker.size - chunker.overlap)

\* C9 witness: a return for L = 5*S with an overlap.
C9_Witness ==
    /\ Returned
    /\ chunker.size > chunker.overlap /\ chunker.overlap > 0
    /\ Len(chunker.text) = 5 * chunker.size
    /\ Len(chunker.text) > 0

Terminating == chunker.text = <<>> \/ chunker.size > chunker.overlap

\* C10: chunkText terminates if and only if the text is empty or S > O.
\* With S > O the offset strictly increases from one iteration to the next
\* and the routine returns; with S <= O on a non-empty text the offset stays
\* below the text length and the routine never returns.
C10_TerminatesIff ==
    /\ [](Returned => Terminating)
    /\ (Terminating ~> Returned)
    /\ [][chunker.size > chunker.overlap /\ chunker'.pc = "loop"
            => chunker'.index > chunker.index]_chunker
    /\ [](~Terminating => chunker.index < Len(chunker.text) /\ chunker.pc = "loop")

\* C10 witness: with S <= O on a non-empty text the loop has been followed
\* for more iterations than the text has characters and still runs.
C10_Witness ==
    /\ ~Terminating
    /\ chunker.pc = "loop"
    /\ Len(chunker.chunks) > Len(chunker.text)

Cleaned == cleaner.pc \in {"cleaned", "recleaned"}

Recleaned == cleaner.pc = "recleaned"

\* the text as the third step of cleanText receives it
Collapsed(text) == replaceWhitespaceRuns(replaceNewlineRuns(text))

\* text holds an occurrence of "Page", whitespace and digits, in any case
HasArtifact(text) == \E i \in 1..Len(text) : pageMatch(Drop(text, i - 1)) > 0

Characters(text) == {text[i] : i \in 1..Len(text)}

\* C11 as stated: for every text x, cleanText(cleanText(x)) = cleanText(x).
C11_Idempotent == Recleaned => cleaner.twice = cleaner.once

\* C11: for every text x in which, once its whitespace is collapsed, no
\* page artifact occurs, cleanText(cleanText(x)) = cleanText(x).
C11_IdempotentWithoutArtifact ==
    Recleaned /\ ~HasArtifact(Collapsed(cleaner.text))
        => cleaner.twice = cleaner.once

\* C11 witness: cleanText has been applied twice to a text with a newline,
\* a tab and a word, and without a page artifact.
C11_Witness ==
    /\ Recleaned
    /\ ~HasArtifact(Collapsed(cleaner.text))
    /\ {"\n", "\t", "p"} \subseteq Characters(cleaner.text)
    /\ cleaner.once # cleaner.text
    /\ cleaner.once # <<>>

\* "Hello world foo"
ScenarioStated ==
    <<"H", "e", "l", "l", "o", " ", "w", "o", "r", "l", "d", " ", "f", "o", "o">>

\* "Hello world  foo"
ScenarioCleaned ==
    <<"H", "e", "l", "l", "o", " ", "w", "o", "r", "l", "d", " ", " ", "f", "o", "o">>

\* C12 as stated: cleanText("Hello   world\n\n\nPage 3 foo") is
\* "Hello world foo", with one space between "world" and "foo".
C12_ScenarioAsStated ==
    Cleaned /\ cleaner.text = ScenarioText => cleaner.once = ScenarioStated

\* C12: cleanText("Hello   world\n\n\nPage 3 foo") is "Hello world  foo": the
\* whitespace runs are collapsed, the artifact "Page 3" is removed and the two
\* spaces that surrounded it both remain.
C12_Scenario ==
    Cleaned /\ cleaner.text = ScenarioText => cleaner.once = ScenarioCleaned

\* C12 witness: cleanText has returned for the text of the scenario.
C12_Witness == cleaner.pc = "cleaned" /\ cleaner.text = ScenarioText

Dispatched == extractor.pc \in {"decoding", "returned", "thrown"}

\* the final extension: what follows the last dot of the file name
FinalExtension == extractor.file.name[Len(extractor.file.name)]

\* the spellings of one extension in different letter cases
CaseClasses ==
    { {"pdf", "PDF", "Pdf"}, {"docx", "DOCX", "Docx"}, {"txt", "TXT"},
      {"exe", "EXE"}, {""} }

SameIgnoringCase(a, b) == \E class \in CaseClasses : a \in class /\ b \in class

\* the decoder of each supported format
DecoderFor ==
    [pdf |-> "extractTextFromPDF", docx |-> "extractTextFromDocx",
     txt |-> "extractTextFromTxt"]

Supported == {"pdf", "docx", "txt"}

\* C13: the decoder is chosen by the final extension of the file name
\* compared without regard to letter case: every spelling of pdf, docx or
\* txt selects the decoder of the lower-case form, and any other extension
\* fails with the unsupported-format error naming that extension, no decoder
\* having been invoked.
C13_DispatchByExtension ==
    Dispatched =>
        /\ \A format \in Supported :
              SameIgnoringCase(FinalExtension, format)
                  => /\ extractor.decoder = DecoderFor[format]
                     /\ extractor.attempts = 1
        /\ (\A format \in Supported : ~SameIgnoringCase(FinalExtension, format))
              => /\ extractor.pc = "thrown"
                 /\ extractor.decoder = "none"
                 /\ extractor.attempts = 0
                 /\ Len(extractor.error.message) = 2
                 /\ extractor.error.message[1] = "Unsupported file type: "
                 /\ SameIgnoringCase(extractor.error.message[2], FinalExtension)

\* C13 witness: a file named with an upper-case unsupported extension after
\* two dots has been refused, the error naming the extension.
C13_Witness ==
    /\ extractor.pc = "thrown"
    /\ extractor.file.name = <<"archive", "tar", "EXE">>
    /\ extractor.error.message = <<"Unsupported file type: ", "exe">>

DecoderFailed ==
    /\ extractor.pc = "thrown"
    /\ extractor.decoder \in {"extractTextFromPDF", "extractTextFromDocx"}

\* C14: when the PDF or DOCX decoder fails, extractTextFromFile has invoked
\* it once, returns no text, and throws an ExtractionFailed error that
\* identifies the source file.
C14_ExtractionFailedNamesFile ==
    DecoderFailed =>
        /\ extractor.attempts = 1
        /\ extractor.text = <<>>
        /\ extractor.error.name = "ExtractionFailed"
        /\ \E part \in 1..Len(extractor.error.message) :
              extractor.error.message[part] = extractor.file.name

Range(seq) == {seq[i] : i \in 1..Len(seq)}

\* recorder r reaches position pc in this step
Reaches(r, pc) ==
    /\ r \in 1..Len(recorders')
    /\ recorders'[r].pc = pc
    /\ (r \in 1..Len(recorders) => recorders[r].pc # pc)

\* recorder r was at position pc before this step
Was(r, pc) == r \in 1..Len(recorders) /\ recorders[r].pc = pc

\* the call this step adds for the transcript of recorder r, if any
SubmitsFor(r) ==
    /\ Len(calls') = Len(calls) + 1
    /\ calls'[Len(calls')].recorder = r

\* C15: for every voice input the steps come in order, whatever other
\* recording is started meanwhile: the recorder's stop event is delivered,
\* its audio being in the Blob built then, before transcribeAudio is called
\* for it; and transcribeAudio has been called and answers with the
\* transcript in the step in which that transcript is submitted.
C15_VoiceOrder ==
    /\ [](\A r \in 1..Len(recorders) :
            recorders[r].pc \in {"reading", "transcribing"} /\ recorders[r].size > 0
                => r \in Range(recorders[r].blob))
    /\ [][\A r \in 1..Len(recorders') :
            /\ Reaches(r, "reading") => Was(r, "stopping")
            /\ Reaches(r, "transcribing") => Was(r, "reading")
            /\ Reaches(r, "sending") => Was(r, "transcribing") /\ SubmitsFor(r)
            /\ SubmitsFor(r) =>
                  /\ Was(r, "transcribing")
                  /\ calls'[Len(calls')].question \in Transcripts \ {""}]_vars

\* C15 witness: the second recording was started before the stop event of
\* the first was delivered, and reset the array the first one's audio then
\* went to; the first is being transcribed, its audio in its Blob.
C15_Witness ==
    /\ Len(recorders) = 2
    /\ recorders[1].pc = "transcribing"
    /\ recorders[1].blob = <<1>>
    /\ recorders[2].pc = "recording"
    /\ mediaRecorderRef = 2
    /\ audioChunksRef = <<1>>

IsPrefix(earlier, later) ==
    /\ Len(earlier) <= Len(later)
    /\ SubSeq(later, 1, Len(earlier)) = earlier

\* C16: once the session has loaded, every step (send, response, interrupt,
\* upload, delete, selection) leaves the messages it found in place, in
\* content and order: the history after the step begins with the history
\* before it.
C16_AppendOnly == [][Loaded => IsPrefix(messages, messages')]_vars

\* C16 witness: the saved history is followed by a question and its answer;
\* meanwhile a document was uploaded and the saved one deleted.
C16_Witness ==
    /\ Loaded
    /\ Len(messages) = Len(SavedHistory) + 2
    /\ IsPrefix(SavedHistory, messages)
    /\ SavedHistory # <<>>
    /\ messages[Len(messages)].role = "assistant"
    /\ Len(documents) = 1
    /\ SavedDoc.id \notin DocumentIds

\* docs without the document whose id is id, the others in their order
Without(docs, id) == SelectSeq(docs, LAMBDA d : d.id # id)

\* what a successful deletion of id makes of the active id
ActiveAfterDelete(id) ==
    IF activeDocumentId # id THEN activeDocumentId
    ELSE IF Without(documents, id) # <<>> THEN Without(documents, id)[1].id
    ELSE NoDoc

\* C17: a confirmed deletion that the store carries out removes the document
\* of that id and no other from state.documents, leaves messages and
\* isProcessing as they were, and leaves activeDocumentId unless it was that
\* id, in which case it becomes the id of the first remaining document or
\* null; a declined or a failed deletion leaves documents and
\* activeDocumentId as they were.
C17_DeleteFrame ==
    [][/\ DeleteReturns =>
            \A id \in deletes \ deletes' :
                /\ documents' = Without(documents, id)
                /\ messages' = messages
                /\ isProcessing' = isProcessing
                /\ activeDocumentId' = ActiveAfterDelete(id)
       /\ DeleteThrows \/ DeleteDeclined =>
            /\ documents' = documents
            /\ activeDocumentId' = activeDocumentId]_vars

\* C17 witness: the saved document has been deleted from the list and from
\* the store while a question was outstanding; the uploaded document
\* remains and is active, and the history and isProcessing stand.
C17_Witness ==
    /\ Loaded
    /\ IsPrefix(SavedHistory, messages)
    /\ deletes = {}
    /\ Len(documents) = 1
    /\ store = documents
    /\ SavedDoc.id \notin DocumentIds
    /\ activeDocumentId = documents[1].id
    /\ isProcessing
    /\ Outstanding # {}

\* the transcription of some recording fails in this step
TranscriptionFails == \E r \in 1..Len(recorders') : Reaches(r, "crashed")

\* C18: whenever isTranscribing is true (a recording has stopped and is
\* being processed) it is false again later, whatever the outcome, the
\* failure of the remote transcription included; and the step in which the
\* transcription fails leaves an error message set.
C18_TranscribingEnds ==
    /\ isTranscribing ~> ~isTranscribing
    /\ [][TranscriptionFails => error' # NoError]_vars

\* an upload that was extracting or saving has failed in this step
UploadFails ==
    \E u \in 1..Len(uploads) :
        /\ uploads[u].pc \in {"extracting", "saving"}
        /\ uploads'[u].pc = "failed"

\* C19: the step in which handleFileUpload fails, at extraction or at the
\* save, adds no document, leaves activeDocumentId and the messages as they
\* were, sets an error message and resets isProcessing to false.
C19_UploadFailureFrame ==
    [][UploadFails =>
          /\ documents' = documents
          /\ activeDocumentId' = activeDocumentId
          /\ messages' = messages
          /\ error' # NoError
          /\ isProcessing' = FALSE]_vars

\* C19 witness: in the saved session an upload has failed at the save: the
\* saved document is still the only one and the active one, the history
\* stands, the error is shown and nothing is processing.
C19_Witness ==
    /\ Loaded
    /\ \E u \in 1..Len(uploads) : uploads[u].pc = "failed"
    /\ error = "Ingestion error."
    /\ documents = <<SavedDoc>>
    /\ activeDocumentId = SavedDoc.id
    /\ messages = SavedHistory
    /\ ~isProcessing

====
